---- MODULE Spec2Model ----
(***************************************************************************)
(* The grafana-dashboard-loader controller                                 *)
(* (pkg/controller/dashboard_controller.go): an informer delivers Add,     *)
(* Update and Delete events of ConfigMaps one at a time; the handlers      *)
(* filter them with isDesiredDashboardConfigmap and call updateDashboard   *)
(* or deleteDashboard, which talk to Grafana over HTTP.  One step of the   *)
(* model is the code that runs up to and including one HTTP exchange.      *)
(***************************************************************************)
EXTENDS Integers, Sequences, FiniteSets, TLC

VARIABLES
    store,       \* the informer's cached ConfigMap, or NoObject
    obj,         \* the object handed to the running (or last) handler
    phase,       \* "idle" | "upsert" | "delete" | "done" | "crashed"
    crash,       \* "" | "panic" | "stack overflow"
    stack,       \* call stack of updateDashboard activations
    todo,        \* deleteDashboard: keys of Data the range loop has not visited
    folders,     \* Grafana: the folders, in creation order
    dashboards,  \* Grafana: uids of the dashboards stored by this controller
    ev,          \* the event being handled and what its handler decided to call
    req,         \* the last HTTP request issued while handling ev, or NoRequest
    resp,        \* the response to req
    key,         \* the Data key of the entry req was issued for
    issued,      \* deleteDashboard: Data keys whose DELETE has been issued
    allOK,       \* every HTTP exchange so far succeeded
    op,          \* what the last step of the handler did
    failed,      \* updateDashboard: an entry failed to parse while handling ev
    mismatch,    \* a submission was answered 412 version-mismatch while handling ev
    resolutions, \* folder resolutions started while handling ev (2 stands for more)
    pending,     \* the informer's buffer: notifications no handler has been called for
    delivered,   \* notifications the watch has delivered so far
    handled      \* delivery number of the last notification a handler was called for

informer == <<pending, delivered, handled>>

vars == <<store, obj, phase, crash, stack, todo, folders, dashboards,
          ev, req, resp, key, issued, allOK, op, failed, mismatch, resolutions,
          pending, delivered, handled>>

----------------------------------------------------------------------------
(* Bounds of the model. *)

\* Frames of updateDashboard the goroutine stack holds before the Go runtime
\* aborts the process with "stack overflow".
MaxStack == 3

\* Notifications the watch delivers in one run of the buffering informer.
MaxEvents == 3

----------------------------------------------------------------------------
(* Program constants. *)

StatusOK == 200
StatusPreconditionFailed == 412

grafanaURI == "http://127.0.0.1:3001"

CustomDashboardLabel == "grafana-custom-dashboard"
GeneralFolderLabel == "general-folder"
FolderAnnotation == "observability.open-cluster-management.io/dashboard-folder"
OwnerKind == "MultiClusterObservability"
NameMarker == "grafana-dashboard"
DefaultFolderTitle == "Custom"

----------------------------------------------------------------------------
(* JSON values as encoding/json decodes them into interface{}. *)

Null == [t |-> "null", v |-> ""]
Str(s) == [t |-> "str", v |-> s]
Num(n) == [t |-> "num", v |-> n]

\* m[k] of a Go map[string]interface{}: nil when the key is missing.
Get(m, k) == IF k \in DOMAIN m THEN m[k] ELSE Null

\* m[k] = x of a Go map.
Put(m, k, x) == [f \in DOMAIN m \cup {k} |-> IF f = k THEN x ELSE m[f]]

\* m[k] of a Go map[string]string: "" when the key is missing.
Lookup(m, k) == IF k \in DOMAIN m THEN m[k] ELSE ""

----------------------------------------------------------------------------
(* strings.ToLower and strings.Contains on the strings the model uses. *)

ToLower(s) ==
    CASE s = "TRUE" -> "true"
      [] s = "True" -> "true"
      [] OTHER -> s

\* The (s, substr) pairs with strings.Contains(s, substr) among the model's strings.
ContainsPairs ==
    { <<"acme-grafana-dashboard", "grafana-dashboard">>,
      <<"{\"status\":\"version-mismatch\"}", "version-mismatch">>,
      <<"{\"status\":\"name-exists\"}", "name-exists">> }

Contains(s, substr) == s = substr \/ <<s, substr>> \in ContainsPairs

----------------------------------------------------------------------------
(* The ConfigMaps the informer can deliver. *)

NoObject == [kind |-> "none"]

Namespace == "ns1"
Names == {"acme-grafana-dashboard"}
Keys == {"k1", "k2"}

\* Values of ConfigMap.Data: the text of one dashboard.
RawBroken == "{not json"
RawNoUID == "{\"title\":\"A\"}"
RawUID == "{\"uid\":\"a\",\"id\":7}"
RawNumUID == "{\"uid\":5}"
RawValues == {RawBroken, RawNoUID, RawUID, RawNumUID}

EmptyMap == [k \in {} |-> ""]

DataMaps == UNION {[K -> RawValues] : K \in SUBSET Keys}

\* Labels, annotations and owner references of the delivered ConfigMaps.
Metas ==
    { [labels |-> (CustomDashboardLabel :> "TRUE"),
       annotations |-> EmptyMap, owners |-> <<>>],
      [labels |-> (CustomDashboardLabel :> "true"),
       annotations |-> (FolderAnnotation :> "Team"), owners |-> <<>>],
      [labels |-> (GeneralFolderLabel :> "true"),
       annotations |-> EmptyMap, owners |-> <<"Deployment", OwnerKind>>],
      [labels |-> (CustomDashboardLabel :> "false"),
       annotations |-> EmptyMap, owners |-> <<"Deployment">>] }

ConfigMap(name, meta, data) ==
    [kind |-> "ConfigMap", name |-> name, namespace |-> Namespace,
     labels |-> meta.labels, annotations |-> meta.annotations,
     owners |-> meta.owners, data |-> data]

ConfigMaps == {ConfigMap(n, m, d) : n \in Names, m \in Metas, d \in DataMaps}

\* A wider range of names, labels, annotations and owner references, over
\* ConfigMaps of one entry.
WideNames == {"acme-grafana-dashboard", "team-boards"}

\* Labels the filter tells apart, and labels that choose the folder.
FilterLabels ==
    { EmptyMap,
      (CustomDashboardLabel :> "True"),
      (CustomDashboardLabel :> "false"),
      (GeneralFolderLabel :> "true") }

FolderLabels ==
    { (CustomDashboardLabel :> "True"),
      (CustomDashboardLabel :> "true") @@ (GeneralFolderLabel :> "true"),
      (CustomDashboardLabel :> "true") @@ (GeneralFolderLabel :> "TRUE"),
      (CustomDashboardLabel :> "true") @@ (GeneralFolderLabel :> "false") }

WideAnnotations ==
    { EmptyMap, (FolderAnnotation :> ""), (FolderAnnotation :> "Team") }

WideOwners == { <<>>, <<"Deployment">>, <<"Deployment", OwnerKind>> }

WideMetas ==
    { [labels |-> l, annotations |-> EmptyMap, owners |-> w] :
        l \in FilterLabels, w \in WideOwners }
    \cup
    { [labels |-> l, annotations |-> a, owners |-> <<>>] :
        l \in FolderLabels, a \in WideAnnotations }

WideData == { ("k1" :> RawNoUID), ("k1" :> RawUID) }

WideConfigMaps ==
    {ConfigMap(n, m, d) : n \in WideNames, m \in WideMetas, d \in WideData}

\* ConfigMaps of three entries, some of which do not parse.
EntryKeys == {"k1", "k2", "k3"}
EntryValues == {RawBroken, RawNoUID}
EntryData == [EntryKeys -> EntryValues]

EntryMetas ==
    { [labels |-> (CustomDashboardLabel :> "true"),
       annotations |-> EmptyMap, owners |-> <<>>],
      [labels |-> (CustomDashboardLabel :> "true") @@ (GeneralFolderLabel :> "true"),
       annotations |-> EmptyMap, owners |-> <<>>] }

EntryConfigMaps ==
    {ConfigMap("acme-grafana-dashboard", m, d) : m \in EntryMetas, d \in EntryData}

\* What DeleteFunc receives when the informer missed the deletion: an object
\* that is no *corev1.ConfigMap.
Tombstone == [kind |-> "DeletedFinalStateUnknown"]

----------------------------------------------------------------------------
(* util.GenerateUID and json.Unmarshal. *)

\* A deterministic, injective function of (name, namespace).
GenerateUID(name, namespace) == namespace \o "-" \o name

\* json.Unmarshal([]byte(value), &dashboard) with dashboard a
\* map[string]interface{}: err for text that is no JSON object.
Unmarshal(value) ==
    CASE value = RawNoUID ->
            [err |-> FALSE, doc |-> [title |-> Str("A")]]
      [] value = RawUID ->
            [err |-> FALSE, doc |-> [uid |-> Str("a"), id |-> Num("7")]]
      [] value = RawNumUID ->
            [err |-> FALSE, doc |-> [uid |-> Num("5")]]
      [] OTHER ->
            [err |-> TRUE, doc |-> [k \in {} |-> Null]]

----------------------------------------------------------------------------
(* The selection filter and the event handlers' decisions. *)

RECURSIVE OwnerMatches(_, _)
\* for _, owner := range owners { if Contains(cm.Name, ...) && owner.Kind == ... }
OwnerMatches(cm, i) ==
    IF i > Len(cm.owners) THEN FALSE
    ELSE IF Contains(cm.name, NameMarker) /\ cm.owners[i] = OwnerKind THEN TRUE
    ELSE OwnerMatches(cm, i + 1)

\* The filter comparing the label without lower-casing it.
isDesiredDashboardConfigmap_ExactLabel(o) ==
    IF o.kind # "ConfigMap" THEN FALSE
    ELSE IF Lookup(o.labels, CustomDashboardLabel) = "true" THEN TRUE
    ELSE OwnerMatches(o, 1)

isDesiredDashboardConfigmap(o) ==
    IF o.kind # "ConfigMap" THEN FALSE
    ELSE IF ToLower(Lookup(o.labels, CustomDashboardLabel)) = "true" THEN TRUE
    ELSE OwnerMatches(o, 1)

\* reflect.DeepEqual on two map[string]string.
DeepEqual(a, b) == a = b

\* What each handler of AddEventHandler calls: "upsert" is
\* updateDashboard(obj, false), "delete" is deleteDashboard(obj).
AddFunc(o) ==
    IF ~isDesiredDashboardConfigmap(o) THEN "none" ELSE "upsert"

\* UpdateFunc comparing the whole objects instead of their Data.
UpdateFunc_ComparesObjects(old, new) ==
    IF ~isDesiredDashboardConfigmap(new) THEN "none"
    ELSE IF ~DeepEqual(old, new) THEN "upsert"
    ELSE "none"

UpdateFunc(old, new) ==
    IF ~isDesiredDashboardConfigmap(new) THEN "none"
    ELSE IF ~DeepEqual(old.data, new.data) THEN "upsert"
    ELSE "none"

\* DeleteFunc without the filter.
DeleteFunc_Unfiltered(o) == "delete"

DeleteFunc(o) ==
    IF ~isDesiredDashboardConfigmap(o) THEN "none" ELSE "delete"

----------------------------------------------------------------------------
(* Grafana, as the controller sees it through util.SetRequest: a response *)
(* is a status code and a body.  Bodies of the folder API are kept in     *)
(* decoded form: kind is "array", "object" or "invalid" (no JSON at all). *)

NoBody == [kind |-> "empty"]
NoRequest == [method |-> "none", url |-> "", body |-> NoBody]
NoResponse == [status |-> 0, body |-> NoBody]

FailureStatuses == {404}

RECURSIVE HasTitle(_, _)
HasTitle(fs, title) ==
    IF fs = <<>> THEN FALSE
    ELSE Head(fs).title = Str(title) \/ HasTitle(Tail(fs), title)

\* Responses to GET /api/folders: the folders; the folders with the ids left
\* out of the elements; or a body that is no JSON array (a failed exchange).
FolderListReplies ==
    { [status |-> StatusOK, body |-> [kind |-> "array", val |-> folders]],
      [status |-> StatusOK,
       body |-> [kind |-> "array",
                 val |-> [i \in 1..Len(folders) |-> [title |-> folders[i].title]]]],
      [status |-> 500, body |-> [kind |-> "invalid", val |-> <<>>]] }

\* Responses to POST /api/folders {"title": title}: the folder as created (for
\* a title Grafana does not hold yet); an object with id 0; an error object
\* without id; or a body that is no JSON.
FolderCreateReplies(title) ==
    (IF HasTitle(folders, title) THEN {}
     ELSE { [status |-> StatusOK, created |-> TRUE,
             body |-> [kind |-> "object",
                       val |-> [id |-> Num(Len(folders) + 1), title |-> Str(title)]]] })
    \cup
    { [status |-> StatusOK, created |-> FALSE,
       body |-> [kind |-> "object", val |-> [id |-> Num(0), title |-> Str(title)]]],
      [status |-> StatusPreconditionFailed, created |-> FALSE,
       body |-> [kind |-> "object", val |-> [message |-> Str("failed")]]],
      [status |-> 500, created |-> FALSE,
       body |-> [kind |-> "invalid", val |-> <<>>]] }

\* Responses to POST /api/dashboards/db; 200 only for a uid that is a string.
DashboardReplies(dashboard) ==
    (IF Get(dashboard, "uid").t = "str"
     THEN {[status |-> StatusOK, body |-> "{\"status\":\"success\"}"]} ELSE {})
    \cup
    { [status |-> StatusPreconditionFailed, body |-> "{\"status\":\"version-mismatch\"}"],
      [status |-> StatusPreconditionFailed, body |-> "{\"status\":\"name-exists\"}"],
      [status |-> StatusPreconditionFailed, body |-> "{\"message\":\"failed\"}"],
      [status |-> 500, body |-> ""] }

\* Responses to DELETE /api/dashboards/uid/{uid}.
DeleteReplies == {[status |-> st, body |-> ""] : st \in {StatusOK} \cup FailureStatuses}

----------------------------------------------------------------------------
(* hasCustomFolder and createCustomFolder, after their HTTP exchange. *)

RECURSIVE FindFolder(_, _)
\* for _, folder := range folders { if folder["title"] == folderTitle {
\*     return folder["id"].(float64) } }; return 0
FindFolder(fs, folderTitle) ==
    IF fs = <<>> THEN [panic |-> FALSE, id |-> 0]
    ELSE IF Get(Head(fs), "title") = Str(folderTitle)
         THEN IF Get(Head(fs), "id").t = "num"
              THEN [panic |-> FALSE, id |-> Get(Head(fs), "id").v]
              ELSE [panic |-> TRUE, id |-> 0]
         ELSE FindFolder(Tail(fs), folderTitle)

hasCustomFolder(body, folderTitle) ==
    IF body.kind # "array" THEN [panic |-> FALSE, id |-> 0]
    ELSE FindFolder(body.val, folderTitle)

\* The part of createCustomFolder after its POST.
createdFolderID(body) ==
    IF body.kind # "object" THEN [panic |-> FALSE, id |-> 0]
    ELSE IF Get(body.val, "id").t = "num"
         THEN [panic |-> FALSE, id |-> Get(body.val, "id").v]
         ELSE [panic |-> TRUE, id |-> 0]

----------------------------------------------------------------------------
(* updateDashboard: its activations and the steps of one activation. *)

\* The test of the general-folder label without lower-casing it.
needsFolder_ExactLabel(o) ==
    Lookup(o.labels, GeneralFolderLabel) # "true"

\* labels["general-folder"] == "" || strings.ToLower(labels["general-folder"]) != "true"
needsFolder(o) ==
    \/ Lookup(o.labels, GeneralFolderLabel) = ""
    \/ ToLower(Lookup(o.labels, GeneralFolderLabel)) # "true"

folderTitleOf(o) ==
    IF FolderAnnotation \notin DOMAIN o.annotations \/ o.annotations[FolderAnnotation] = ""
    THEN DefaultFolderTitle
    ELSE o.annotations[FolderAnnotation]

\* An activation that overwrites whatever its caller passed.
NewFrame_AlwaysOverwrites(o, overwrite) ==
    [overwrite |-> TRUE, folderID |-> 0,
     title |-> IF needsFolder(o) THEN folderTitleOf(o) ELSE "",
     pc |-> IF needsFolder(o) THEN "list" ELSE "loop", rest |-> DOMAIN o.data]

\* A fresh activation of updateDashboard(o, overwrite): it first resolves the
\* folder (pc "list", then "create") unless the general folder is asked for,
\* then ranges over Data (pc "loop"; rest is what the range has not visited).
NewFrame(o, overwrite) ==
    IF needsFolder(o)
    THEN [overwrite |-> overwrite, folderID |-> 0, title |-> folderTitleOf(o),
          pc |-> "list", rest |-> DOMAIN o.data]
    ELSE [overwrite |-> overwrite, folderID |-> 0, title |-> "",
          pc |-> "loop", rest |-> DOMAIN o.data]

Top(stk) == stk[Len(stk)]
Pop(stk) == SubSeq(stk, 1, Len(stk) - 1)
SetTop(stk, fr) == [stk EXCEPT ![Len(stk)] = fr]

RECURSIVE Unwind(_)
\* Activations whose range loop is exhausted return to their caller.
Unwind(stk) ==
    IF stk = <<>> THEN stk
    ELSE IF Top(stk).pc = "loop" /\ Top(stk).rest = {} THEN Unwind(Pop(stk))
    ELSE stk

Running(stk) ==
    [stack |-> Unwind(stk),
     phase |-> IF Unwind(stk) = <<>> THEN "done" ELSE "upsert",
     crash |-> ""]

Crashed(stk, why) == [stack |-> stk, phase |-> "crashed", crash |-> why]

\* The call updateDashboard(o, overwrite) made with stk on the goroutine stack.
Call(stk, o, overwrite) ==
    IF Len(stk) >= MaxStack THEN Crashed(stk, "stack overflow")
    ELSE Running(Append(stk, NewFrame(o, overwrite)))

\* The return statement of the top activation.
Return(stk) == Running(Pop(stk))

\* buildDashboard replacing the uid of every payload by the generated one.
buildDashboard_AlwaysGenerates(doc, o) ==
    Put(Put(doc, "uid", Str(GenerateUID(o.name, o.namespace))), "id", Null)

\* dashboard as submitted: lines 184-188.
buildDashboard(doc, o) ==
    Put(IF Get(doc, "uid") = Null
        THEN Put(doc, "uid", Str(GenerateUID(o.name, o.namespace)))
        ELSE doc,
        "id", Null)

\* afterSubmit retrying on every 412, whatever its reason.
afterSubmit_RetriesEvery412(stk, o, reply) ==
    IF reply.status = StatusPreconditionFailed
    THEN Call(stk, o, TRUE)
    ELSE Running(stk)

\* What follows the response to POST /api/dashboards/db: lines 204-218.
afterSubmit(stk, o, reply) ==
    IF reply.status # StatusOK
       /\ reply.status = StatusPreconditionFailed
       /\ Contains(reply.body, "version-mismatch")
    THEN Call(stk, o, TRUE)
    ELSE Running(stk)

Machine(m) ==
    /\ stack' = m.stack
    /\ phase' = m.phase
    /\ crash' = m.crash

GetFolders ==
    /\ phase = "upsert"
    /\ Top(stack).pc = "list"
    /\ \E reply \in FolderListReplies :
         LET found == hasCustomFolder(reply.body, Top(stack).title) IN
         /\ req' = [method |-> "GET", url |-> grafanaURI \o "/api/folders", body |-> NoBody]
         /\ resp' = reply
         /\ allOK' = (allOK /\ reply.body.kind = "array")
         /\ op' = "list"
         /\ resolutions' = IF resolutions = 0 THEN 1 ELSE 2
         /\ Machine(IF found.panic THEN Crashed(stack, "panic")
                    ELSE IF found.id # 0
                         THEN Running(SetTop(stack, [Top(stack) EXCEPT !.folderID = found.id,
                                                                       !.pc = "loop"]))
                         ELSE Running(SetTop(stack, [Top(stack) EXCEPT !.pc = "create"])))
    /\ UNCHANGED <<store, obj, todo, folders, dashboards, ev, key, issued,
                   failed, mismatch, pending, delivered, handled>>

PostFolder ==
    /\ phase = "upsert"
    /\ Top(stack).pc = "create"
    /\ \E reply \in FolderCreateReplies(Top(stack).title) :
         LET made == createdFolderID(reply.body) IN
         /\ req' = [method |-> "POST", url |-> grafanaURI \o "/api/folders",
                    body |-> [title |-> Top(stack).title]]
         /\ resp' = reply
         /\ allOK' = (allOK /\ reply.created)
         /\ op' = "create"
         /\ folders' = IF reply.created THEN Append(folders, reply.body.val) ELSE folders
         /\ Machine(IF made.panic THEN Crashed(stack, "panic")
                    ELSE IF made.id = 0 THEN Return(stack)
                    ELSE Running(SetTop(stack, [Top(stack) EXCEPT !.folderID = made.id,
                                                                  !.pc = "loop"])))
    /\ UNCHANGED <<store, obj, todo, dashboards, ev, key, issued,
                   failed, mismatch, resolutions, pending, delivered, handled>>

\* One iteration of the range over Data: lines 176-219.
UpsertEntry ==
    /\ phase = "upsert"
    /\ Top(stack).pc = "loop"
    /\ \E k \in Top(stack).rest :
         LET parsed == Unmarshal(obj.data[k])
             rest == SetTop(stack, [Top(stack) EXCEPT !.rest = @ \ {k}])
         IN
         IF parsed.err
            THEN /\ Machine(Return(stack))
                 /\ op' = "parse error"
                 /\ failed' = TRUE
                 /\ UNCHANGED <<req, resp, key, allOK, dashboards, mismatch>>
            ELSE LET dashboard == buildDashboard(parsed.doc, obj) IN
                 \E reply \in DashboardReplies(dashboard) :
                   /\ req' = [method |-> "POST", url |-> grafanaURI \o "/api/dashboards/db",
                              body |-> [folderId |-> Top(stack).folderID,
                                        overwrite |-> Top(stack).overwrite,
                                        dashboard |-> dashboard]]
                   /\ resp' = reply
                   /\ key' = k
                   /\ allOK' = (allOK /\ reply.status = StatusOK)
                   /\ dashboards' = IF reply.status = StatusOK
                                    THEN dashboards \cup {Get(dashboard, "uid").v}
                                    ELSE dashboards
                   /\ op' = "submit"
                   /\ mismatch' = (mismatch \/ Contains(reply.body, "version-mismatch"))
                   /\ UNCHANGED failed
                   /\ Machine(afterSubmit(rest, obj, reply))
    /\ UNCHANGED <<store, obj, todo, folders, ev, issued, resolutions,
                   pending, delivered, handled>>

----------------------------------------------------------------------------
(* deleteDashboard. *)

\* uid of the dashboard to delete: lines 234-237.  dashboard["uid"].(string)
\* panics for a uid that is no string.
deleteUID(doc, o) ==
    IF Get(doc, "uid") # Null
    THEN IF Get(doc, "uid").t = "str"
         THEN [panic |-> FALSE, uid |-> Get(doc, "uid").v]
         ELSE [panic |-> TRUE, uid |-> ""]
    ELSE [panic |-> FALSE, uid |-> GenerateUID(o.name, o.namespace)]

\* One iteration of the range over Data: lines 225-247.
DeleteEntry ==
    /\ phase = "delete"
    /\ \E k \in todo :
         LET parsed == Unmarshal(obj.data[k])
             target == deleteUID(parsed.doc, obj)
         IN
         IF parsed.err
            THEN /\ todo' = {}
                 /\ phase' = "done"
                 /\ op' = "parse error"
                 /\ UNCHANGED <<req, resp, key, allOK, dashboards, issued, crash>>
            ELSE IF target.panic
            THEN /\ phase' = "crashed"
                 /\ crash' = "panic"
                 /\ op' = "panic"
                 /\ UNCHANGED <<req, resp, key, allOK, dashboards, issued, todo>>
            ELSE \E reply \in DeleteReplies :
                   /\ req' = [method |-> "DELETE",
                              url |-> grafanaURI \o "/api/dashboards/uid/" \o target.uid,
                              body |-> NoBody]
                   /\ resp' = reply
                   /\ key' = k
                   /\ allOK' = (allOK /\ reply.status = StatusOK)
                   /\ issued' = issued \cup {k}
                   /\ dashboards' = IF reply.status = StatusOK
                                    THEN dashboards \ {target.uid}
                                    ELSE dashboards
                   /\ todo' = todo \ {k}
                   /\ phase' = IF todo' = {} THEN "done" ELSE "delete"
                   /\ op' = "delete"
                   /\ UNCHANGED crash
    /\ UNCHANGED <<store, obj, stack, folders, ev, failed, mismatch, resolutions,
                   pending, delivered, handled>>

----------------------------------------------------------------------------
(* The informer: it delivers one event at a time and runs the handler to   *)
(* its end before the next.                                                *)

\* The handler's call, started on the delivered object.
Handle(call, o) ==
    /\ obj' = o
    /\ req' = NoRequest
    /\ resp' = NoResponse
    /\ key' = ""
    /\ issued' = {}
    /\ op' = "event"
    /\ failed' = FALSE
    /\ mismatch' = FALSE
    /\ resolutions' = 0
    /\ IF call = "upsert"
       THEN /\ Machine(Call(<<>>, o, FALSE))
            /\ todo' = {}
       ELSE IF call = "delete"
       THEN /\ todo' = DOMAIN o.data
            /\ phase' = IF DOMAIN o.data = {} THEN "done" ELSE "delete"
            /\ UNCHANGED <<stack, crash>>
       ELSE /\ todo' = {}
            /\ phase' = "done"
            /\ UNCHANGED <<stack, crash>>
    /\ UNCHANGED <<folders, dashboards, allOK>>

AddEventOf(S) ==
    /\ phase = "idle"
    /\ store = NoObject
    /\ \E o \in S :
         /\ store' = o
         /\ ev' = [type |-> "Add", call |-> AddFunc(o),
                   managed |-> isDesiredDashboardConfigmap(o),
                   same |-> FALSE, labelOnly |-> FALSE]
         /\ Handle(AddFunc(o), o)
    /\ UNCHANGED informer

AddEvent == AddEventOf(ConfigMaps)

\* A change of the ConfigMap, or a resync (new = old).
UpdateEventOf(S) ==
    /\ phase = "idle"
    /\ store # NoObject
    /\ \E new \in S :
         /\ new.name = store.name
         /\ store' = new
         /\ ev' = [type |-> "Update", call |-> UpdateFunc(store, new),
                   managed |-> isDesiredDashboardConfigmap(new),
                   same |-> (store.data = new.data),
                   labelOnly |-> (store.data = new.data /\ store.labels # new.labels)]
         /\ Handle(UpdateFunc(store, new), new)
    /\ UNCHANGED informer

UpdateEvent == UpdateEventOf(ConfigMaps)

DeleteEvent ==
    /\ phase = "idle"
    /\ store # NoObject
    /\ store' = NoObject
    /\ ev' = [type |-> "Delete", call |-> DeleteFunc(store),
              managed |-> isDesiredDashboardConfigmap(store),
              same |-> FALSE, labelOnly |-> FALSE]
    /\ Handle(DeleteFunc(store), store)
    /\ UNCHANGED informer

\* A deletion the informer learned of late: DeleteFunc gets the tombstone.
TombstoneEvent ==
    /\ phase = "idle"
    /\ store # NoObject
    /\ store' = NoObject
    /\ ev' = [type |-> "Delete", call |-> DeleteFunc(Tombstone),
              managed |-> isDesiredDashboardConfigmap(Tombstone),
              same |-> FALSE, labelOnly |-> FALSE]
    /\ Handle(DeleteFunc(Tombstone), Tombstone)
    /\ UNCHANGED informer

\* The handler has returned; the informer waits for the next notification.
NoEvent ==
    [type |-> "none", call |-> "none", managed |-> FALSE,
     same |-> FALSE, labelOnly |-> FALSE]

HandlerReturns ==
    /\ phase = "done"
    /\ phase' = "idle"
    /\ obj' = NoObject
    /\ ev' = NoEvent
    /\ req' = NoRequest
    /\ resp' = NoResponse
    /\ key' = ""
    /\ issued' = {}
    /\ op' = "return"
    /\ failed' = FALSE
    /\ mismatch' = FALSE
    /\ resolutions' = 0
    /\ UNCHANGED <<store, crash, stack, todo, folders, dashboards, allOK>>
    /\ UNCHANGED informer

----------------------------------------------------------------------------
(* The informer with its buffer: the watch delivers notifications at any   *)
(* time, also while a handler runs; the listener calls the handlers for    *)
(* them one after the other, in the order of delivery.                     *)

QueueData == { ("k1" :> RawNoUID), ("k1" :> RawUID) }

QueueConfigMaps ==
    { ConfigMap("acme-grafana-dashboard",
                [labels |-> (CustomDashboardLabel :> "true"),
                 annotations |-> EmptyMap, owners |-> <<>>], d) : d \in QueueData }

Notification(type, old, new) ==
    [type |-> type, old |-> old, new |-> new, seq |-> delivered + 1]

Deliver(n) ==
    /\ delivered < MaxEvents
    /\ delivered' = delivered + 1
    /\ pending' = Append(pending, n)
    /\ UNCHANGED <<obj, phase, crash, stack, todo, folders, dashboards, ev, req,
                   resp, key, issued, allOK, op, failed, mismatch, resolutions,
                   handled>>

DeliverAdd ==
    /\ store = NoObject
    /\ \E o \in QueueConfigMaps :
         /\ store' = o
         /\ Deliver(Notification("Add", NoObject, o))

DeliverUpdate ==
    /\ store # NoObject
    /\ \E new \in QueueConfigMaps :
         /\ store' = new
         /\ Deliver(Notification("Update", store, new))

DeliverDelete ==
    /\ store # NoObject
    /\ store' = NoObject
    /\ Deliver(Notification("Delete", store, NoObject))

\* The handlers as goroutines of their own: a handler is called while the
\* previous one still runs.
Ready_Asynchronous == phase \in {"idle", "upsert", "delete"}

\* AddFunc, UpdateFunc and DeleteFunc run updateDashboard and deleteDashboard
\* as plain calls, so the listener gets control back only at their end.
Ready == phase = "idle"

\* The listener takes the oldest notification and calls its handler.
Dispatch ==
    /\ Ready
    /\ pending # <<>>
    /\ LET n == Head(pending)
           o == IF n.type = "Delete" THEN n.old ELSE n.new
           call == CASE n.type = "Add" -> AddFunc(n.new)
                     [] n.type = "Update" -> UpdateFunc(n.old, n.new)
                     [] OTHER -> DeleteFunc(n.old)
       IN
       /\ pending' = Tail(pending)
       /\ handled' = n.seq
       /\ ev' = [type |-> n.type, call |-> call,
                 managed |-> isDesiredDashboardConfigmap(o),
                 same |-> (n.type = "Update" /\ n.old.data = n.new.data),
                 labelOnly |-> FALSE]
       /\ Handle(call, o)
    /\ UNCHANGED <<store, delivered>>

----------------------------------------------------------------------------

Init ==
    /\ store = NoObject
    /\ obj = NoObject
    /\ phase = "idle"
    /\ crash = ""
    /\ stack = <<>>
    /\ todo = {}
    /\ folders = <<>>
    /\ dashboards = {}
    /\ ev = NoEvent
    /\ req = NoRequest
    /\ resp = NoResponse
    /\ key = ""
    /\ issued = {}
    /\ allOK = TRUE
    /\ op = "return"
    /\ failed = FALSE
    /\ mismatch = FALSE
    /\ resolutions = 0
    /\ pending = <<>>
    /\ delivered = 0
    /\ handled = 0

Next ==
    \/ AddEvent
    \/ UpdateEvent
    \/ DeleteEvent
    \/ GetFolders
    \/ PostFolder
    \/ UpsertEntry
    \/ DeleteEntry
    \/ HandlerReturns

Spec == Init /\ [][Next]_vars

\* The controller over the wider metadata.
NextMeta ==
    \/ AddEventOf(WideConfigMaps)
    \/ UpdateEventOf(WideConfigMaps)
    \/ DeleteEvent
    \/ TombstoneEvent
    \/ GetFolders
    \/ PostFolder
    \/ UpsertEntry
    \/ DeleteEntry
    \/ HandlerReturns

SpecMeta == Init /\ [][NextMeta]_vars

\* The controller over the ConfigMaps of three entries.
NextEntries ==
    \/ AddEventOf(EntryConfigMaps)
    \/ UpdateEventOf(EntryConfigMaps)
    \/ DeleteEvent
    \/ GetFolders
    \/ PostFolder
    \/ UpsertEntry
    \/ DeleteEntry
    \/ HandlerReturns

SpecEntries == Init /\ [][NextEntries]_vars

\* The controller behind the buffering informer.
NextQueue ==
    \/ DeliverAdd
    \/ DeliverUpdate
    \/ DeliverDelete
    \/ Dispatch
    \/ GetFolders
    \/ PostFolder
    \/ UpsertEntry
    \/ DeleteEntry
    \/ HandlerReturns

SpecQueue == Init /\ [][NextQueue]_vars

----------------------------------------------------------------------------
(* Properties. *)

DashboardsURL == grafanaURI \o "/api/dashboards/db"
FoldersURL == grafanaURI \o "/api/folders"
DeleteURL(uid) == grafanaURI \o "/api/dashboards/uid/" \o uid

IsSubmission == req.method = "POST" /\ req.url = DashboardsURL
IsFolderCreation == req.method = "POST" /\ req.url = FoldersURL
IsDeletion == req.method = "DELETE"

Parses(o, k) == ~Unmarshal(o.data[k]).err
Payload(o, k) == Unmarshal(o.data[k]).doc

\* C1: within one Add or Update event updateDashboard recurses at most one
\* level beyond the handler's overwrite=false call: there are never more than
\* two activations, and an activation with overwrite=true never calls
\* updateDashboard again.
C1_RetryAtMostOnce ==
    /\ Len(stack) <= 2
    /\ \A i \in 1..(Len(stack) - 1) : ~stack[i].overwrite

\* C2: the handling of an event always completes and later events are
\* dispatched, whatever Grafana answers.  Stated as the absence of a state
\* in which no further step is possible; the panics of C3 are left aside, so
\* that what is checked is the answers of Grafana that the code handles.
C2_EventCompletes == crash # "panic" => ENABLED Next

\* C3: no response body and no decodable dashboard payload crashes the watch
\* loop: a crashed state is unreachable.
C3_NeverCrashes == phase # "crashed"

\* C4: when a managed ConfigMap is deleted after any Add and Update events,
\* every HTTP exchange having succeeded, Grafana holds no dashboard this
\* controller stored for it.  Stated for a deleted ConfigMap all of whose
\* entries parse and have a string uid or none, where deleteDashboard visits
\* every entry.
C4_DeleteRemovesAll ==
    ( /\ ev.type = "Delete"
      /\ ev.managed
      /\ phase = "done"
      /\ allOK
      /\ \A k \in DOMAIN obj.data :
            Parses(obj, k) /\ Get(Payload(obj, k), "uid").t # "num" )
    => dashboards = {}

\* C5: every request submitted to /api/dashboards/db, with overwrite false or
\* true, has dashboard.id null and dashboard.uid equal to the payload's uid
\* when it has one and to GenerateUID(name, namespace) otherwise.
C5_SubmittedUID ==
    IsSubmission =>
        /\ "id" \in DOMAIN req.body.dashboard
        /\ req.body.dashboard["id"] = Null
        /\ "uid" \in DOMAIN req.body.dashboard
        /\ req.body.dashboard["uid"] =
              IF "uid" \in DOMAIN Payload(obj, key) /\ Payload(obj, key)["uid"] # Null
              THEN Payload(obj, key)["uid"]
              ELSE Str(GenerateUID(obj.name, obj.namespace))

\* A request of the overwrite=true pass for a payload without uid.
C5_Witness ==
    /\ IsSubmission
    /\ req.body.overwrite
    /\ "uid" \notin DOMAIN Payload(obj, key)

\* C6: an Update event calls updateDashboard(new, false) exactly when new is
\* managed and its Data differs from the old Data; an Update with the same
\* Data issues no HTTP request.
C6_UpdateUpsertsIffDataChanged ==
    ev.type = "Update" =>
        /\ (ev.call = "upsert") <=> (ev.managed /\ ~ev.same)
        /\ ev.call \in {"upsert", "none"}
        /\ ev.call = "upsert" =>
              /\ obj = store
              /\ stack # <<>> => ~stack[1].overwrite
        /\ ev.same => (req = NoRequest /\ stack = <<>> /\ phase = "done")

\* An Update of a managed ConfigMap that changed labels and left Data alone.
C6_Witness ==
    /\ ev.type = "Update"
    /\ ev.managed
    /\ ev.same
    /\ ev.labelOnly
    /\ DOMAIN store.data # {}
    /\ phase = "done"

\* C7: an event whose object isDesiredDashboardConfigmap rejects issues no
\* HTTP request, also after an earlier event of the ConfigMap was accepted.
C7_UnmanagedNoCall ==
    (ev.type # "none" /\ ~ev.managed) =>
        /\ ev.call = "none"
        /\ req = NoRequest
        /\ stack = <<>>
        /\ todo = {}
        /\ phase = "done"

\* A rejected Delete of a ConfigMap whose dashboards an earlier event stored.
C7_Witness ==
    /\ ev.type = "Delete"
    /\ ~ev.managed
    /\ dashboards # {}
    /\ DOMAIN obj.data # {}

\* C8: for each decodable entry of a deleted managed ConfigMap deleteDashboard
\* issues a DELETE for the uid that updateDashboard submits for that entry
\* (the payload's uid, or GenerateUID(name, namespace)).  Stated for a
\* ConfigMap all of whose entries parse.
C8_DeleteTargetsSubmittedUID ==
    /\ IsDeletion =>
          req.url = DeleteURL(Get(buildDashboard(Payload(obj, key), obj), "uid").v)
    /\ ( /\ ev.type = "Delete"
         /\ ev.managed
         /\ phase \in {"done", "crashed"}
         /\ \A k \in DOMAIN obj.data : Parses(obj, k) )
       => \A k \in DOMAIN obj.data : k \in issued

\* C9: in deleteDashboard an entry that does not parse, or whose DELETE is
\* answered with a status other than 200, does not stop the deletion of the
\* other entries: when the handler returns, the DELETE of every entry that
\* parses has been issued.
C9_DeleteVisitsAll ==
    (ev.type = "Delete" /\ ev.managed /\ phase = "done")
    => \A k \in DOMAIN obj.data : Parses(obj, k) => k \in issued

\* C10: folder resolution is idempotent: Grafana never holds two folders of
\* one title, an activation that resolved a title holds the id of the folder
\* of that title, and POST /api/folders is never issued for a title Grafana
\* already holds (such a POST is the one Grafana does not answer by creating).
C10_FolderIdempotent ==
    /\ \A i, j \in 1..Len(folders) :
          folders[i].title = folders[j].title => i = j
    /\ \A n \in 1..Len(stack) :
          (stack[n].pc = "loop" /\ stack[n].folderID # 0) =>
              \E i \in 1..Len(folders) :
                  /\ folders[i].title = Str(stack[n].title)
                  /\ folders[i].id = Num(stack[n].folderID)
    /\ (IsFolderCreation /\ ~resp.created) => ~HasTitle(folders, req.body.title)

----------------------------------------------------------------------------
(* Failures of folder resolution. *)

FolderCreationFailed ==
    /\ op = "create"
    /\ ~createdFolderID(resp.body).panic
    /\ createdFolderID(resp.body).id = 0

UndecodableFolderList ==
    /\ op = "list"
    /\ resp.body.kind # "array"

\* C11: when folder creation yields id 0, no dashboard is submitted while
\* handling that event (before or after it) and the handler ends there, with
\* no further folder resolution and no further pass.
C11_FolderFailureAborts ==
    FolderCreationFailed => (key = "" /\ phase = "done")

\* C12: when the folder list of an upsert cannot be decoded, the handler does
\* not go on to the folder-creation request.
C12_UndecodableListAborts ==
    UndecodableFolderList => ~(phase = "upsert" /\ Top(stack).pc = "create")

----------------------------------------------------------------------------
(* The folder a submission goes to, and the selection filter. *)

\* The spellings of "true" among the model's label values.
TrueSpellings == {"true", "True", "TRUE"}

RECURSIVE FolderIdOf(_, _)
\* The id Grafana holds for the folder of this title, 0 when it holds none.
FolderIdOf(fs, title) ==
    IF fs = <<>> THEN 0
    ELSE IF Head(fs).title = Str(title) THEN Head(fs).id.v
    ELSE FolderIdOf(Tail(fs), title)

WantedTitle(o) ==
    IF FolderAnnotation \in DOMAIN o.annotations /\ o.annotations[FolderAnnotation] # ""
    THEN o.annotations[FolderAnnotation]
    ELSE "Custom"

ResolvedFolder ==
    /\ resolutions >= 1
    /\ req.body.folderId # 0
    /\ req.body.folderId = FolderIdOf(folders, WantedTitle(obj))

\* C13 as stated: a submission follows no folder call and carries folderId 0
\* exactly when the general-folder label is "true"; every other submission
\* follows the resolution of the wanted folder and carries its id.
C13_GeneralFolderIffTrue ==
    IsSubmission =>
        IF Lookup(obj.labels, GeneralFolderLabel) = "true"
        THEN resolutions = 0 /\ req.body.folderId = 0
        ELSE ResolvedFolder

\* C13, amended: a submission follows no folder call and carries folderId 0
\* exactly when the general-folder label is "true" in any letter case; every
\* other submission follows the resolution of the folder titled by the
\* dashboard-folder annotation, or "Custom" when that is absent or empty, and
\* carries the resolved id.
C13_GeneralFolderIffTrueAnyCase ==
    IsSubmission =>
        IF Lookup(obj.labels, GeneralFolderLabel) \in TrueSpellings
        THEN resolutions = 0 /\ req.body.folderId = 0
        ELSE ResolvedFolder

C13_Witness ==
    /\ IsSubmission
    /\ Lookup(obj.labels, GeneralFolderLabel) = "TRUE"
    /\ resolutions = 0
    /\ req.body.folderId = 0

IsManaged(o) ==
    /\ o.kind = "ConfigMap"
    /\ \/ Lookup(o.labels, CustomDashboardLabel) \in TrueSpellings
       \/ /\ Contains(o.name, "grafana-dashboard")
          /\ \E i \in DOMAIN o.owners : o.owners[i] = "MultiClusterObservability"

\* C14: the filter's verdict on the object of every event is IsManaged: the
\* label grafana-custom-dashboard is "true" in any letter case, or the name
\* contains "grafana-dashboard" and some owner is a MultiClusterObservability;
\* an object that is no ConfigMap is never managed.
C14_FilterIsManaged ==
    ev.type # "none" => (ev.managed <=> IsManaged(obj))

C14_Witness ==
    /\ ev.type = "Add"
    /\ ev.managed
    /\ Lookup(obj.labels, CustomDashboardLabel) = ""
    /\ obj.owners = <<"Deployment", OwnerKind>>

----------------------------------------------------------------------------
(* One reconciliation at a time, in the order of delivery. *)

InFlight == phase \in {"upsert", "delete"}

\* C15: while an Upsert (with its retry passes) or a Delete is in flight, no
\* handler is called for another notification, so every call of one event is
\* issued before any call of a later one; and the handlers are called in the
\* order the notifications were delivered, however many of them wait.
C15_OneAtATimeInOrder ==
    [][ /\ InFlight => (handled' = handled /\ ev' = ev /\ obj' = obj)
        /\ handled' # handled => handled' = handled + 1
        /\ (req' # req /\ req' # NoRequest) => (InFlight /\ handled' = handled) ]_vars

C15_Witness ==
    /\ phase = "upsert"
    /\ key # ""
    /\ pending # <<>>
    /\ Len(stack) > 1

----------------------------------------------------------------------------
(* Folder resolution and the passes of one event. *)

\* C16: while one event is handled, folder resolution is started at most
\* once, whatever the number of entries and of retry passes, and all passes
\* that submit dashboards submit them with the same folderId.
C16_ResolvesOncePerEvent ==
    /\ resolutions <= 1
    /\ \A i, j \in DOMAIN stack :
         (stack[i].pc = "loop" /\ stack[j].pc = "loop")
             => stack[i].folderID = stack[j].folderID

\* C17: once an entry has failed to parse while an event is handled, no
\* dashboard is submitted for that event any more, neither by the pass that
\* met the failure nor by the pass that started it; and an Upsert issues no
\* DELETE, so what was accepted before stays.
C17_ParseFailureAborts ==
    /\ (failed /\ ev.call = "upsert") => op # "submit"
    /\ ev.call = "upsert" => ~IsDeletion

----------------------------------------------------------------------------
(* Responses that are logged and skipped. *)

Skipped(reply) ==
    /\ reply.status # 200
    /\ ~(reply.status = 412 /\ Contains(reply.body, "version-mismatch"))

\* The stack once the top pass has dropped entry k and goes on with the rest.
GoesOn(stk, k) ==
    Unwind(SetTop(stk, [Top(stk) EXCEPT !.rest = @ \ {k}]))

\* C18: a submission answered 412 name-exists, 412 without a known reason or
\* any other non-200 status starts no new pass and leaves the process alive:
\* the pass that made it drops the entry and goes on with its remaining ones.
C18_SkippedWithoutRetry ==
    [][ (phase = "upsert" /\ op' = "submit" /\ Skipped(resp'))
            => /\ stack' = GoesOn(stack, key')
               /\ phase' = (IF stack' = <<>> THEN "done" ELSE "upsert") ]_vars

C18_Witness ==
    /\ op = "submit"
    /\ Contains(resp.body, "name-exists")
    /\ phase = "upsert"
    /\ Top(stack).pc = "loop"
    /\ Top(stack).rest # {}
    /\ key \notin Top(stack).rest

----------------------------------------------------------------------------
(* The overwrite flag of the submissions of one event. *)

\* C19: a dashboard is submitted only while an Add or Update event of a
\* managed ConfigMap is handled; the first submission of the event carries
\* overwrite=false; and a submission carries overwrite=true only when an
\* earlier submission of the same event was answered 412 version-mismatch.
C19_OverwriteOnlyAfterMismatch ==
    /\ [](IsSubmission => (ev.call = "upsert" /\ ev.type \in {"Add", "Update"}))
    /\ [][ (phase = "upsert" /\ op' = "submit")
               => /\ ev.type \in {"Add", "Update"}
                  /\ ev.managed
                  /\ key = "" => ~req'.body.overwrite
                  /\ req'.body.overwrite => (mismatch /\ key # "") ]_vars

C19_Witness ==
    /\ op = "submit"
    /\ req.body.overwrite
    /\ mismatch
    /\ resp.status = 200
    /\ ev.type = "Update"

----------------------------------------------------------------------------
(* Entries without a uid. *)

UIDless(o, k) == Parses(o, k) /\ Get(Payload(o, k), "uid") = Null

\* The uids that payloads bring along.
SuppliedUIDs ==
    { Get(Unmarshal(v).doc, "uid").v :
        v \in {w \in RawValues : Get(Unmarshal(w).doc, "uid").t = "str"} }

\* Every entry without uid is submitted, and deleted, under the uid generated
\* from the ConfigMap's name and namespace, and Grafana holds at most one
\* dashboard that no payload named.
UIDlessShareOneUID ==
    /\ (IsSubmission /\ UIDless(obj, key))
          => Get(req.body.dashboard, "uid") = Str(GenerateUID(obj.name, obj.namespace))
    /\ (IsDeletion /\ UIDless(obj, key))
          => req.url = DeleteURL(GenerateUID(obj.name, obj.namespace))
    /\ Cardinality(dashboards \ SuppliedUIDs) <= 1

\* C20: the entries of a ConfigMap that have no uid share the generated uid,
\* so Grafana holds at most one dashboard for all of them whatever events
\* came before, and a Delete has, when its handler ends, issued one DELETE
\* for that uid per entry without uid.
C20_UIDlessEntriesShareUID ==
    /\ UIDlessShareOneUID
    /\ (ev.type = "Delete" /\ ev.managed /\ phase \in {"done", "crashed"})
          => \A k \in DOMAIN obj.data : UIDless(obj, k) => k \in issued

============================================================================
